---- MODULE Spec2Model ----
(***************************************************************************)
(* State-machine model of the Jira/Telegram assistant bot (src/main.py):   *)
(* the decision memory (_load_mem, _save_mem, remember, examples), the     *)
(* action table ACTIONS with action_ganclik, the button handler button_cb, *)
(* and the scan send_all driven by /refresh and by the periodic job.       *)
(*                                                                         *)
(* Strings are sequences of tokens; the token ":" is the separator of a    *)
(* button payload.  Exceptions are values: "none" means that no exception  *)
(* was raised.                                                             *)
(***************************************************************************)
EXTENDS Integers, Sequences, FiniteSets, TLC

(* ------------------------------ bounds --------------------------------- *)
\* remember() calls made directly in the memory specifications
MaxCalls == 3
\* length of the longest small store in the sampling specification
MaxStore == 3
\* largest count asked of examples(n)
MaxN == 4
\* button presses, timer scans and /refresh commands of one run
MaxPress == 2
MaxScans == 2
MaxRefresh == 1
\* comments of the longest comment list of a rendered ticket
MaxComments == 2

(* ------------------------- program constants --------------------------- *)
\* _memory_cache[-1000:]
MemCap == 1000
\* last.body[:300]
CardCut == 300

Min(a, b) == IF a < b THEN a ELSE b
Max(a, b) == IF a > b THEN a ELSE b

(* ------------------------------ strings -------------------------------- *)
K1 == <<"ISP-1">>
K2 == <<"ISP-2">>
K3 == <<"ISP-3">>
\* the tickets on the tracker, and those whose buttons are pressed
TicketKeys == {K1, K2, K3}
PressKeys == {K1, K2}

\* the keys of the table ACTIONS
ActionNames == {"in_progress", "on_hold", "ganclik", "cdc_cc"}

(* --------------------------- JSON and files ---------------------------- *)
\* A JSON value: an array of records, or a value of another shape.
JArray(items) == [shape |-> "array", items |-> items]
JOther(shape) == [shape |-> shape, items |-> <<>>]
OtherShapes == {"object", "string", "number", "null"}

\* The memory file: missing, or a body that is empty, is not JSON
\* ("garbage"), is not UTF-8 ("badutf8"), or is the JSON text of a value.
NoFile == [exists |-> FALSE, body |-> "none", value |-> JOther("null")]
FileOf(body) == [exists |-> TRUE, body |-> body, value |-> JOther("null")]
JsonFile(v) == [exists |-> TRUE, body |-> "json", value |-> v]

\* A call's result: the exception it raised ("none" if it returned) and
\* the value it returned.
Returned(v) == [raised |-> "none", value |-> v]
Raised(e) == [raised |-> e, value |-> JOther("null")]

\* Path.read_text("utf-8")
read_text(f) ==
    IF f.body = "badutf8" THEN Raised("UnicodeDecodeError")
    ELSE Returned(f)

\* json.loads on the text of the file
json_loads(f) ==
    IF f.body = "json" THEN Returned(f.value)
    ELSE Raised("JSONDecodeError")

\* the exceptions that suppress(json.JSONDecodeError) swallows
\* (a load that suppresses nothing)
SuppressNothing == {}
Suppressed == {"JSONDecodeError"}

\* _load_mem(): the parsed file; [] when the file is missing or when
\* JSONDecodeError was suppressed; any other exception propagates.
load_mem(f) ==
    IF ~f.exists THEN Returned(JArray(<<>>))
    ELSE LET t == read_text(f)
             r == IF t.raised # "none" THEN t ELSE json_loads(f)
         IN  IF r.raised = "none" THEN r
             ELSE IF r.raised \in Suppressed THEN Returned(JArray(<<>>))
             ELSE r

\* s[:n] of Python, the slice from the other end
SliceFirst(s, n) == SubSeq(s, 1, Min(n, Len(s)))
\* s[-n:] of Python, n > 0
SliceLast(s, n) == SubSeq(s, Max(Len(s) - n, 0) + 1, Len(s))

\* How writing the file ends: written; open() failed (file untouched);
\* the write failed after open() truncated the file, leaving nothing or a
\* part of the text.
SaveOutcomes == {"ok", "open_fail", "trunc_fail", "partial_fail"}

\* (a write that returns without having written)
save_lost(f, m, io) == [raised |-> "none", file |-> f]
\* _save_mem(m): the file afterwards and the exception raised
save_mem(f, m, io) ==
    CASE io = "ok" -> [raised |-> "none", file |-> JsonFile(m)]
      [] io = "open_fail" -> [raised |-> "OSError", file |-> f]
      [] io = "trunc_fail" -> [raised |-> "OSError", file |-> FileOf("empty")]
      [] OTHER -> [raised |-> "OSError", file |-> FileOf("garbage")]

MemRecord(key, act, ts) == [key |-> key, action |-> act, ts |-> ts]

\* remember(key, act) on cache c and file f at time now: the cache and the
\* file afterwards, and the exception raised.  A cache that is no list has
\* no append.
remember(c, f, key, act, now, io) ==
    IF c.shape # "array"
    THEN [raised |-> "AttributeError", cache |-> c, file |-> f]
    ELSE LET kept == SliceLast(Append(c.items, MemRecord(key, act, now)), MemCap)
             s == save_mem(f, JArray(kept), io)
         IN  [raised |-> s.raised, cache |-> JArray(kept), file |-> s.file]

\* The sequences of k distinct positions of a list of length len
InjSeqs(len, k) ==
    {p \in [1..k -> 1..len] : \A i, j \in 1..k : i # j => p[i] # p[j]}

\* positions drawn with replacement, as random.choices draws them
AnySeqs(len, k) == [1..k -> 1..len]

\* random.sample(population, k): the position sequences it may draw;
\* ValueError when k is negative
SamplePositions(len, k) == InjSeqs(len, k)

\* examples(n) on the list c: every result random.sample can give, as
\* the positions drawn and the records found there
examples(c, n) ==
    LET k == Min(Len(c.items), n)
    IN  IF k < 0 THEN {[raised |-> "ValueError", pos |-> <<>>, out |-> <<>>]}
        ELSE {[raised |-> "none", pos |-> p,
               out |-> [i \in 1..k |-> c.items[p[i]]]] :
                 p \in SamplePositions(Len(c.items), k)}

(* --------------------------- advisory model ---------------------------- *)
\* the value of a member that an object of the memory file does not have
Missing == <<"(no member)">>

\* How the HTTP exchange of llm_recommend ends: "ok", or the exception
\* raised by post(), by raise_for_status(), by r.json(), by the
\* subscripts into the decoded body, or by strip().
HttpOutcomes == {"ok", "ConnectError", "HTTPStatusError", "JSONDecodeError",
                 "IndexError", "AttributeError"}

\* the turns built from the examples by the loop of llm_recommend:
\* e['key'] and e['action'] raise KeyError on a record that lacks them
RECURSIVE turns(_)
turns(ex) ==
    IF ex = <<>> THEN [raised |-> "none", msgs |-> <<>>]
    ELSE LET e == Head(ex)
             t == turns(Tail(ex))
         IN  IF e.key = Missing \/ e.action = Missing
             THEN [raised |-> "KeyError", msgs |-> <<>>]
             ELSE IF t.raised # "none" THEN t
             ELSE [raised |-> "none",
                   msgs |-> <<[role |-> "user", content |-> e.key],
                              [role |-> "assistant", content |-> e.action]>>
                            \o t.msgs]

\* llm_recommend(issue, ex): the exception that leaves it, the text it
\* returns ("reply": the model's answer, "fallback": the fixed string),
\* the messages posted and whether a warning was logged.  The loop over
\* ex runs before the try block.
llm_recommend(issue, ex, http) ==
    LET t == turns(ex)
        msgs == <<[role |-> "system", content |-> <<"choose">>]>> \o t.msgs
                    \o <<[role |-> "user", content |-> issue]>>
    IN  IF t.raised # "none"
        THEN [raised |-> t.raised, text |-> "none", posted |-> <<>>,
              warned |-> FALSE]
        ELSE IF http = "ok"
        THEN [raised |-> "none", text |-> "reply", posted |-> msgs,
              warned |-> FALSE]
        ELSE [raised |-> "none", text |-> "fallback",
              posted |-> IF http = "ConnectError" THEN <<>> ELSE msgs,
              warned |-> TRUE]

(* -------------------------------- card --------------------------------- *)
\* the one-character string that card shows for what a ticket lacks, and
\* the default of getattr(last.author, "displayName", "?")
Dash == <<"-">>
Unknown == <<"?">>
\* an author object without displayName
Anonymous == <<>>

\* s[:n] of Python, n >= 0
Prefix(s, n) == SubSeq(s, 1, Min(n, Len(s)))

\* comments[-1] of a list that is not empty
\* (comments[0], the other end)
first_of(comments) == comments[1]
last_of(comments) == comments[Len(comments)]

\* A ticket as the tracker returns it: fields.status is None or has a
\* name; fields.comment is None or holds the list comments.
Issue(key, status, comment) == [key |-> key, status |-> status, comment |-> comment]
NoStatus == [present |-> FALSE, name |-> <<>>]
Status(name) == [present |-> TRUE, name |-> name]
NoComment == [present |-> FALSE, comments |-> <<>>]
Comments(list) == [present |-> TRUE, comments |-> list]
Comment(body, author) == [body |-> body, author |-> author]

\* card(issue): the parts of the text it returns
card(issue) ==
    LET st == IF issue.status.present THEN issue.status.name ELSE Dash
        has == issue.comment.present /\ issue.comment.comments # <<>>
        last_ == last_of(issue.comment.comments)
    IN  [href |-> issue.key, key |-> issue.key, st |-> st,
         last_text |-> IF has THEN Prefix(last_.body, CardCut) ELSE Dash,
         last_auth |-> IF ~has THEN Dash
                       ELSE IF last_.author = Anonymous THEN Unknown
                       ELSE last_.author]

(* ------------------------------ keyboard ------------------------------- *)
InlineKeyboardButton(text, data) == [text |-> text, callback_data |-> data]

\* (the keyboard with the Refresh button it had in an earlier version)
kb_refresh(key) ==
    << <<InlineKeyboardButton("In Progress", key \o <<":", "in_progress">>),
         InlineKeyboardButton("On Hold", key \o <<":", "on_hold">>)>>,
       <<InlineKeyboardButton("ganclik", key \o <<":", "ganclik">>),
         InlineKeyboardButton("cdc_cc", key \o <<":", "cdc_cc">>)>>,
       <<InlineKeyboardButton("Refresh", key \o <<":", "refresh">>)>> >>

\* kb(key): the rows of buttons, each with its f"{key}:{act}" payload
kb(key) ==
    << <<InlineKeyboardButton("In Progress", key \o <<":", "in_progress">>),
         InlineKeyboardButton("On Hold", key \o <<":", "on_hold">>)>>,
       <<InlineKeyboardButton("ganclik", key \o <<":", "ganclik">>),
         InlineKeyboardButton("cdc_cc", key \o <<":", "cdc_cc">>)>> >>

\* the payloads of the buttons of a keyboard
callback_data(markup) ==
    UNION {{markup[i][j].callback_data : j \in 1..Len(markup[i])} :
              i \in 1..Len(markup)}

(* ------------------------------ tracker -------------------------------- *)
\* How a call to the tracker ends: "ok", or the exception it raises.
CallOutcomes == {"ok", "JIRAError", "KeyError", "ConnectionError"}

Ticket0 == [status |-> "Open", assignee |-> "arif.nagiyev",
            reason |-> "unset", date |-> "unset"]
Tracker0 == [k \in TicketKeys |-> Ticket0]

\* The result of code that calls the tracker: the exception raised, the
\* tracker afterwards, and the calls and log lines made, in order.
Act(raised, trk, events) == [raised |-> raised, trk |-> trk, events |-> events]

\* Jira.transition(key, name, fields)
jira_transition(trk, key, name, reason, res) ==
    IF res = "ok"
    THEN Act("none", [trk EXCEPT ![key].status = name,
                                 ![key].reason = IF reason = "keep" THEN @ ELSE reason],
             <<"transition">>)
    ELSE Act(res, trk, <<"transition">>)

\* Jira.assign(key, who)
jira_assign(trk, key, who, res) ==
    IF res = "ok"
    THEN Act("none", [trk EXCEPT ![key].assignee = who], <<"assign">>)
    ELSE Act(res, trk, <<"assign">>)

\* Jira.update(key, {CF_CONNECT_DATE: date})
jira_update(trk, key, date, res) ==
    IF res = "ok"
    THEN Act("none", [trk EXCEPT ![key].date = date], <<"update">>)
    ELSE Act(res, trk, <<"update">>)

\* the exceptions caught around jira.update in action_ganclik
GanclikCaught == {"JIRAError"}

\* (an action_ganclik that tries the date update again when it failed)
ganclik_retry(trk, key, r1, r2) ==
    LET a == jira_assign(trk, key, "ganclik", r1)
    IN  IF a.raised # "none" THEN a
        ELSE LET u == jira_update(a.trk, key, "tomorrow", r2)
                 v == jira_update(a.trk, key, "tomorrow", "ok")
             IN  IF u.raised = "none"
                 THEN Act("none", u.trk, a.events \o u.events)
                 ELSE Act("none", v.trk, a.events \o u.events \o v.events)

\* action_ganclik(key); r1 and r2 are how assign and update end
action_ganclik(trk, key, r1, r2) ==
    LET a == jira_assign(trk, key, "ganclik", r1)
    IN  IF a.raised # "none" THEN a
        ELSE LET u == jira_update(a.trk, key, "tomorrow", r2)
             IN  IF u.raised = "none"
                 THEN Act("none", u.trk, a.events \o u.events)
                 ELSE IF u.raised \in GanclikCaught
                 THEN Act("none", u.trk, a.events \o u.events \o <<"log.warning">>)
                 ELSE Act(u.raised, u.trk, a.events \o u.events)

\* act in ACTIONS
InTable(act) == Len(act) = 1 /\ act[1] \in ActionNames

\* ACTIONS[act](key) (ACTIONS is a reserved word of TLA+): KeyError when the table has no such entry
Actions(trk, act, key, r1, r2) ==
    IF ~InTable(act) THEN Act("KeyError", trk, <<>>)
    ELSE CASE act[1] = "in_progress" ->
                jira_transition(trk, key, "In Progress", "keep", r1)
           [] act[1] = "on_hold" ->
                jira_transition(trk, key, "On Hold", "Due to Customer", r1)
           [] act[1] = "ganclik" -> action_ganclik(trk, key, r1, r2)
           [] OTHER -> jira_assign(trk, key, "cdc_cc", r1)

(* --------------------------- button handler ---------------------------- *)
\* the first position of token t in s, 0 when there is none
RECURSIVE Find(_, _, _)
Find(s, t, i) ==
    IF i > Len(s) THEN 0 ELSE IF s[i] = t THEN i ELSE Find(s, t, i + 1)

\* s.split(":", 1)
split(s) ==
    LET i == Find(s, ":", 1)
    IN  IF i = 0 THEN <<s>>
        ELSE <<SubSeq(s, 1, i - 1), SubSeq(s, i + 1, Len(s))>>

\* The except clause of button_cb that catches an exception raised in
\* "ACTIONS[act](key)": "unknown" for "except KeyError", "jira" for
\* "except Exception"; "none" when nothing was raised.
\* (the same with one of the two clauses left out: "except Exception"
\* alone, and "except KeyError" alone)
except_only_generic(raised) == IF raised = "none" THEN "none" ELSE "jira"
except_pass(raised) == IF raised = "KeyError" THEN "unknown" ELSE "none"
except_clause(raised) ==
    IF raised = "none" THEN "none"
    ELSE IF raised = "KeyError" THEN "unknown"
    ELSE "jira"

\* What button_cb has done when it reaches its last await (or ends by an
\* exception): the exception that left the handler, the message passed
\* to edit_message_text with the error text in it, the tracker, the
\* cache and the file afterwards, and the calls made, in order.
Pressed(raised, msg, text, key, act, trk, c, f, events) ==
    [raised |-> raised, msg |-> msg, text |-> text, key |-> key, act |-> act,
     trk |-> trk, cache |-> c, file |-> f, events |-> events]

\* the body of button_cb from "key, act = q.data.split(...)" on
button_cb(data, trk, c, f, now, r1, r2, io) ==
    LET parts == split(data)
    IN  IF Len(parts) # 2
        THEN Pressed("ValueError", "none", "none", <<>>, <<>>, trk, c, f, <<>>)
        ELSE LET key == parts[1]
                 act == parts[2]
                 d == Actions(trk, act, key, r1, r2)
                 caught == except_clause(d.raised)
             IN  IF caught = "unknown"
                 THEN Pressed("none", "unknown", "none", key, act, d.trk, c, f,
                              d.events \o <<"log.error", "edit">>)
                 ELSE IF caught = "jira"
                 THEN Pressed("none", "jira", d.raised, key, act, d.trk, c, f,
                              d.events \o <<"log.error", "edit">>)
                 ELSE LET m == remember(c, f, key, act, now, io)
                      IN  IF m.raised # "none"
                          THEN Pressed(m.raised, "none", "none", key, act, d.trk,
                                       m.cache, m.file, d.events \o <<"remember">>)
                          ELSE Pressed("none", "success", "none", key, act, d.trk,
                                       m.cache, m.file,
                                       d.events \o <<"remember", "edit">>)

(* -------------------------------- scan --------------------------------- *)
\* the loop of send_all up to its next send_message: the issues still to
\* visit, those already in sent skipped ("continue")
\* (the loop without its "if issue.key in sent: continue")
no_skip(queue, sent_) == queue
RECURSIVE skip_sent(_, _)
skip_sent(queue, sent_) ==
    IF queue = <<>> THEN <<>>
    ELSE IF Head(queue) \in sent_ THEN skip_sent(Tail(queue), sent_)
    ELSE queue

\* A scan: awaiting send_message for cur with rest still to visit
\* (pc = "send"), or over.
Sending(queue) == [pc |-> "send", cur |-> Head(queue), rest |-> Tail(queue)]
ScanOver == [pc |-> "over", cur |-> <<>>, rest |-> <<>>]
ScanOf(queue) == IF queue = <<>> THEN ScanOver ELSE Sending(queue)

\* the sent set after "if force: sent.clear()"
\* (a scan that ignores force)
never_cleared(force, sent_) == sent_
cleared(force, sent_) == IF force THEN {} ELSE sent_

\* send_all(ctx, force) up to its first await; search is how
\* jira.search(JQL) ends
send_all(force, sent_, search) ==
    LET s1 == cleared(force, sent_)
    IN  IF search.raised # "none"
        THEN [raised |-> search.raised, sent |-> s1, scan |-> ScanOver]
        ELSE [raised |-> "none", sent |-> s1,
              scan |-> ScanOf(skip_sent(search.issues, s1))]

\* send_all resumed after send_message returned: sent.add(issue.key) and
\* the loop up to the next await
send_all_resume(scan, sent_) ==
    LET s1 == sent_ \cup {scan.cur}
    IN  [sent |-> s1, scan |-> ScanOf(skip_sent(scan.rest, s1))]

(* ------------------------------- state --------------------------------- *)
VARIABLES
    file,       \* MEMORY_FILE on disk
    cache,      \* _memory_cache
    clock,      \* datetime.now(timezone.utc)
    tracker,    \* the tickets on the tracker
    sent,       \* ctx.bot_data["sent"]
    hpc,        \* where the update handler is: "idle", or awaiting
                \* "answer", "edit", "send", "reply"
    hscan,      \* the scan of the /refresh being handled
    job,        \* the scan of the running job_check
    \* history variables
    loaded,     \* the file read at start and what _load_mem made of it
    hist,       \* the loaded records, then every record appended since
    calls,      \* direct calls of the memory functions
    last,       \* the last direct remember call
    sample,     \* the last examples(n) call
    hev,        \* the update being handled, or the last one handled; alone
                \* says that no job_check ran while its /refresh scanned
    hres,       \* what button_cb did for it
    hout,       \* how its handling ended
    jev,        \* the running job_check: what its search gave and the sent
                \* set it found
    cards,      \* cards sent per key since sent was last cleared
    rcards,     \* cards sent per key by the /refresh being handled
    presses, scans, refreshes,
    advice,     \* the last llm_recommend call: its arguments and its result
    rendered,   \* the last card call: its argument and its result
    tasks,      \* button_cb calls in flight when updates are handled
                \* concurrently: where each is, its payload and the store
                \* it found when it started
    stored,     \* presses whose dispatch succeeded and whose remember returned
    spoiled     \* a remember call has raised

memVars == <<file, cache, clock, loaded, hist, calls, last, sample>>
botVars == <<tracker, sent, hpc, hscan, job, hev, hres, hout, jev, cards, rcards,
             presses, scans, refreshes>>
auxVars == <<advice, rendered, tasks, stored, spoiled>>
vars == <<memVars, botVars, auxVars>>

Acts == <<"in_progress", "on_hold", "ganclik", "cdc_cc">>
\* a store of n records as an earlier run of the bot left it
StoreOf(n) ==
    [i \in 1..n |-> MemRecord(IF i % 2 = 1 THEN K1 ELSE K2, <<Acts[(i % 4) + 1]>>, i)]
\* a hand-edited store holding the same record twice
DupStore == <<MemRecord(K1, <<"on_hold">>, 1), MemRecord(K1, <<"on_hold">>, 1)>>

BrokenFiles == {NoFile, FileOf("empty"), FileOf("garbage"), FileOf("badutf8")}
ShapeFiles == {JsonFile(JOther(sh)) : sh \in OtherShapes}
\* files around the cap, for the memory specification
BigFiles ==
    BrokenFiles \cup ShapeFiles \cup
    {JsonFile(JArray(StoreOf(n))) : n \in {0, 2, MemCap - 1, MemCap, MemCap + 1}}
\* files holding a small array
SmallArrayFiles ==
    {JsonFile(JArray(StoreOf(n))) : n \in 0..MaxStore} \cup {JsonFile(JArray(DupStore))}
\* a hand-edited store whose second record has lost its key, and one
\* whose first record has lost its action
NoKeyStore == <<MemRecord(K1, <<"on_hold">>, 1), MemRecord(Missing, <<"ganclik">>, 2)>>
NoActionStore == <<MemRecord(K2, Missing, 1), MemRecord(K1, <<"cdc_cc">>, 2)>>
\* files the advisory specification starts from
AdviceFiles ==
    {JsonFile(JArray(StoreOf(n))) : n \in 0..MaxStore} \cup
    {JsonFile(JArray(NoKeyStore)), JsonFile(JArray(NoActionStore)), FileOf("garbage")}
\* files the bot specifications start from
BotFiles ==
    {NoFile, FileOf("garbage"), JsonFile(JArray(StoreOf(1))), JsonFile(JOther("object"))}

NoPress == Pressed("none", "none", "none", <<>>, <<>>, Tracker0, JOther("null"),
                   NoFile, <<>>)
NoEvent == [kind |-> "none", data |-> <<>>, ran |-> FALSE, alone |-> TRUE,
            r1 |-> "ok", r2 |-> "ok", io |-> "ok",
            cache0 |-> JOther("null"), file0 |-> NoFile, trk0 |-> Tracker0,
            issues |-> <<>>, sent0 |-> {}]
\* a /refresh whose scan is over: what it found is forgotten
RefreshOver == [NoEvent EXCEPT !.kind = "refresh", !.ran = TRUE]
NoSample == [n |-> -1, raised |-> "none", pos |-> <<>>, out |-> <<>>,
             before |-> JOther("null"), after |-> JOther("null")]
NoCall == [op |-> "none", raised |-> "none", key |-> <<>>, action |-> <<>>]
NoJob == [issues |-> <<>>, sent0 |-> {}]
\* the button_cb calls that can be in flight together
Slots == {"a", "b"}
NoTask == [pc |-> "idle", data |-> <<>>, seen |-> JOther("null")]
NoCard == [called |-> FALSE, issue |-> Issue(<<>>, NoStatus, NoComment),
           card |-> [href |-> <<>>, key |-> <<>>, st |-> <<>>, last_text |-> <<>>,
                     last_auth |-> <<>>]]
NoAdvice == [called |-> FALSE, issue |-> <<>>, ex |-> <<>>, http |-> "ok",
             result |-> [raised |-> "none", text |-> "none", posted |-> <<>>,
                         warned |-> FALSE]]
Zero == [k \in TicketKeys |-> 0]

\* the process is running: importing the module did not fail in _load_mem
started == loaded.result.raised = "none"

\* The state once main() polls, the memory file being one of files:
\* "_memory_cache = _load_mem()" has run.
InitFrom(files) ==
    /\ file \in files
    /\ loaded = [file |-> file, result |-> load_mem(file)]
    /\ cache = loaded.result.value
    /\ hist = IF cache.shape = "array" THEN cache.items ELSE <<>>
    /\ clock = Len(hist) + 1
    /\ calls = 0
    /\ last = NoCall
    /\ sample = NoSample
    /\ tracker = Tracker0
    /\ sent = {}
    /\ hpc = "idle"
    /\ hscan = ScanOver
    /\ job = ScanOver
    /\ hev = NoEvent
    /\ hres = NoPress
    /\ hout = "none"
    /\ jev = NoJob
    /\ cards = Zero
    /\ rcards = Zero
    /\ presses = 0
    /\ scans = 0
    /\ refreshes = 0
    /\ advice = NoAdvice
    /\ rendered = NoCard
    /\ tasks = [s \in Slots |-> NoTask]
    /\ stored = 0
    /\ spoiled = FALSE

Init == InitFrom(BotFiles)
InitMem == InitFrom(BigFiles)
InitSample == InitFrom(SmallArrayFiles)
InitScan == InitFrom({NoFile})
InitAdvice == InitFrom(AdviceFiles)

(* -------------------------- memory, called directly -------------------- *)
\* the arguments of the direct remember calls
MemArgs == {<<K1, <<"in_progress">>>>, <<K2, <<"ganclik">>>>}

\* remember(key, act)
Remember(key, act, io) ==
    /\ started
    /\ calls < MaxCalls
    /\ LET m == remember(cache, file, key, act, clock, io)
       IN  /\ cache' = m.cache
           /\ file' = m.file
           /\ last' = [op |-> "remember", raised |-> m.raised, key |-> key,
                       action |-> act]
    /\ hist' = IF cache.shape = "array"
               THEN Append(hist, MemRecord(key, act, clock)) ELSE hist
    /\ clock' = clock + 1
    /\ calls' = calls + 1
    /\ UNCHANGED <<auxVars, loaded, sample, botVars>>

\* examples(n)
Examples(n) ==
    /\ started
    /\ calls < MaxCalls
    /\ cache.shape = "array"
    /\ cache' = cache
    /\ \E r \in examples(cache, n) :
          sample' = [n |-> n, raised |-> r.raised, pos |-> r.pos, out |-> r.out,
                     before |-> cache, after |-> cache']
    /\ calls' = calls + 1
    /\ UNCHANGED <<auxVars, file, clock, loaded, hist, last, botVars>>

NextMem == \E a \in MemArgs, io \in SaveOutcomes : Remember(a[1], a[2], io)
SpecMem == InitMem /\ [][NextMem]_vars

RememberSmall ==
    /\ cache.shape = "array"
    /\ Len(cache.items) < MaxStore
    /\ \E a \in MemArgs : Remember(a[1], a[2], "ok")
ExamplesAny == \E n \in 0..MaxN : Examples(n)
NextSample == RememberSmall \/ ExamplesAny
SpecSample == InitSample /\ [][NextSample]_vars

(* --------------------- the advisory model, called ---------------------- *)
\* llm_recommend(issue, examples(n)), from its call to its return: the
\* await of the HTTP exchange touches nothing that another task changes.
\* One call is followed per run: a call leaves nothing behind that a
\* later call reads.
Recommend(issue, n, http) ==
    /\ started
    /\ ~advice.called
    /\ cache.shape = "array"
    /\ \E r \in examples(cache, n) :
          advice' = [called |-> TRUE, issue |-> issue, ex |-> r.out, http |-> http,
                     result |-> llm_recommend(issue, r.out, http)]
    /\ UNCHANGED <<memVars, botVars, rendered, tasks, stored, spoiled>>

RecommendAny ==
    \E k \in TicketKeys, n \in 0..MaxN, http \in HttpOutcomes : Recommend(k, n, http)
NextAdvice == RememberSmall \/ RecommendAny
SpecAdvice == InitAdvice /\ [][NextAdvice]_vars

(* ------------------------------ card, called --------------------------- *)
\* a comment body of n characters, c the odd ones
Body(c, n) == [i \in 1..n |-> IF i % 2 = 1 THEN c ELSE "."]
\* the comments a ticket may carry: short, of the cut's length and one
\* longer, signed or not
SomeComments ==
    {Comment(Body(c, n), a) : c \in {"x", "y"}, n \in {0, CardCut, CardCut + 1},
                              a \in {<<"Ann">>, Anonymous}}
CommentLists == UNION {[1..n -> SomeComments] : n \in 0..MaxComments}
Issues ==
    {Issue(k, st, c) : k \in PressKeys, st \in {NoStatus, Status(<<"Open">>)},
                       c \in {NoComment} \cup {Comments(l) : l \in CommentLists}}

\* card(issue); one call is followed per run, card being a function of
\* its argument
Render(issue) ==
    /\ started
    /\ ~rendered.called
    /\ rendered' = [called |-> TRUE, issue |-> issue, card |-> card(issue)]
    /\ UNCHANGED <<memVars, botVars, advice, tasks, stored, spoiled>>

NextCard == \E i \in Issues : Render(i)
SpecCard == InitScan /\ [][NextCard]_vars

(* ------------------------------ the bot -------------------------------- *)
\* button payloads: those kb(key) renders, those naming no entry of the
\* table, and one without separator
GoodPayloads == UNION {callback_data(kb(k)) : k \in PressKeys}
UnknownPayloads == {K1 \o <<":", "skip">>, K1 \o <<":">>,
                    K2 \o <<":", "ganclik", ":", "x">>}
BarePayloads == {K1}
Payloads == GoodPayloads \cup UnknownPayloads \cup BarePayloads

\* what jira.search(JQL) may give: the tickets in any order, or an error
IssueLists ==
    {q \in UNION {[1..n -> TicketKeys] : n \in 0..Cardinality(TicketKeys)} :
        \A i, j \in 1..Len(q) : i # j => q[i] # q[j]}
SearchOutcomes ==
    {[raised |-> "none", issues |-> q] : q \in IssueLists} \cup
    {[raised |-> "JIRAError", issues |-> <<>>]}

Has(events, e) == \E i \in 1..Len(events) : events[i] = e

\* A button press arrives: button_cb runs to "await q.answer()".
Press(data) ==
    /\ started
    /\ hpc = "idle"
    /\ presses < MaxPress
    /\ hpc' = "answer"
    /\ hev' = [NoEvent EXCEPT !.kind = "button", !.data = data,
                              !.cache0 = cache, !.file0 = file, !.trk0 = tracker]
    /\ hres' = NoPress
    /\ hout' = "none"
    /\ presses' = presses + 1
    /\ UNCHANGED <<auxVars, memVars, tracker, sent, hscan, job, jev, cards, rcards, scans,
                   refreshes>>

\* q.answer() returned: button_cb runs, without awaiting, to its
\* edit_message_text or to the exception that ends it.  r1, r2 are how the
\* tracker calls end and io how the file write ends; a call that is not
\* made ends "ok".
ButtonBody(r1, r2, io) ==
    /\ hpc = "answer"
    /\ LET b == button_cb(hev.data, tracker, cache, file, clock, r1, r2, io)
       IN  /\ r1 = "ok" \/ Has(b.events, "transition") \/ Has(b.events, "assign")
           /\ r2 = "ok" \/ Has(b.events, "update")
           /\ io = "ok" \/ (Has(b.events, "remember") /\ cache.shape = "array")
           /\ hres' = b
           /\ tracker' = b.trk
           /\ cache' = b.cache
           /\ file' = b.file
           /\ hpc' = IF b.raised = "none" THEN "edit" ELSE "idle"
           /\ hout' = IF b.raised = "none" THEN "none" ELSE "raised"
           /\ hist' = IF Has(b.events, "remember") /\ cache.shape = "array"
                      THEN Append(hist, MemRecord(b.key, b.act, clock))
                      ELSE hist
           /\ clock' = IF Has(b.events, "remember") THEN clock + 1 ELSE clock
    /\ hev' = [hev EXCEPT !.ran = TRUE, !.r1 = r1, !.r2 = r2, !.io = io]
    /\ UNCHANGED <<auxVars, loaded, calls, last, sample, sent, hscan, job, jev, cards, rcards,
                   presses, scans, refreshes>>

\* edit_message_text returned: button_cb returns.
EditDone ==
    /\ hpc = "edit"
    /\ hpc' = "idle"
    /\ hout' = hres.msg
    /\ UNCHANGED <<auxVars, memVars, tracker, sent, hscan, job, jev, hev, hres, cards, rcards,
                   presses, scans, refreshes>>

Bump(f, k) == [f EXCEPT ![k] = @ + 1]

\* /refresh arrives: cmd_refresh runs send_all(ctx, force=True) to its
\* first await.
RefreshStart(search) ==
    /\ started
    /\ hpc = "idle"
    /\ refreshes < MaxRefresh
    /\ LET r == send_all(TRUE, sent, search)
       IN  /\ sent' = r.sent
           /\ hscan' = r.scan
           /\ hpc' = IF r.raised # "none" THEN "idle"
                     ELSE IF r.scan.pc = "send" THEN "send" ELSE "reply"
           /\ hout' = IF r.raised # "none" THEN "raised" ELSE "none"
           /\ hev' = IF r.raised # "none" THEN RefreshOver
                     ELSE [RefreshOver EXCEPT !.issues = search.issues,
                                              !.sent0 = sent,
                                              !.alone = (job.pc = "over")]
    /\ hres' = NoPress
    /\ cards' = Zero
    /\ rcards' = Zero
    /\ refreshes' = refreshes + 1
    /\ UNCHANGED <<auxVars, memVars, tracker, job, jev, presses, scans>>

\* send_message of the /refresh scan returned: the card is out.
RefreshSent ==
    /\ hpc = "send"
    /\ LET r == send_all_resume(hscan, sent)
       IN  /\ sent' = r.sent
           /\ hscan' = r.scan
           /\ hpc' = IF r.scan.pc = "send" THEN "send" ELSE "reply"
    /\ cards' = Bump(cards, hscan.cur)
    /\ rcards' = Bump(rcards, hscan.cur)
    /\ UNCHANGED <<auxVars, memVars, tracker, job, jev, hev, hres, hout, presses, scans,
                   refreshes>>

\* send_message of the /refresh scan raised: cmd_refresh ends by it.
RefreshSendFail ==
    /\ hpc = "send"
    /\ hpc' = "idle"
    /\ hscan' = ScanOver
    /\ hout' = "raised"
    /\ hev' = RefreshOver
    /\ rcards' = Zero
    /\ UNCHANGED <<auxVars, memVars, tracker, sent, job, jev, hres, cards, presses, scans,
                   refreshes>>

\* reply_text returned: cmd_refresh returns.
RefreshReplied ==
    /\ hpc = "reply"
    /\ hpc' = "idle"
    /\ hout' = "replied"
    /\ hev' = RefreshOver
    /\ rcards' = Zero
    /\ UNCHANGED <<auxVars, memVars, tracker, sent, hscan, job, jev, hres, cards, presses,
                   scans, refreshes>>

\* The timer fires: job_check runs send_all(ctx) to its first await.
JobStart(search) ==
    /\ started
    /\ job.pc = "over"
    /\ scans < MaxScans
    /\ LET r == send_all(FALSE, sent, search)
       IN  /\ sent' = r.sent
           /\ job' = r.scan
           /\ jev' = IF r.scan.pc = "send"
                     THEN [issues |-> search.issues, sent0 |-> sent] ELSE NoJob
    /\ hev' = IF hev.kind = "refresh" /\ hpc = "send"
              THEN [hev EXCEPT !.alone = FALSE] ELSE hev
    /\ scans' = scans + 1
    /\ UNCHANGED <<auxVars, memVars, tracker, hpc, hscan, hres, hout, cards, rcards,
                   presses, refreshes>>

\* send_message of the timer scan returned: the card is out.
JobSent ==
    /\ job.pc = "send"
    /\ LET r == send_all_resume(job, sent)
       IN  /\ sent' = r.sent
           /\ job' = r.scan
           /\ jev' = IF r.scan.pc = "send" THEN jev ELSE NoJob
    /\ cards' = Bump(cards, job.cur)
    /\ UNCHANGED <<auxVars, memVars, tracker, hpc, hscan, hev, hres, hout, rcards,
                   presses, scans, refreshes>>

\* send_message of the timer scan raised: job_check ends by it.
JobSendFail ==
    /\ job.pc = "send"
    /\ job' = ScanOver
    /\ jev' = NoJob
    /\ UNCHANGED <<auxVars, memVars, tracker, sent, hpc, hscan, hev, hres, hout, cards,
                   rcards, presses, scans, refreshes>>

PressAny == \E d \in Payloads : Press(d)
ButtonBodyAny ==
    \E r1 \in CallOutcomes, r2 \in CallOutcomes, io \in SaveOutcomes :
        ButtonBody(r1, r2, io)
RefreshStartAny == \E s \in SearchOutcomes : RefreshStart(s)
JobStartAny == \E s \in SearchOutcomes : JobStart(s)

NextButton == PressAny \/ ButtonBodyAny \/ EditDone
NextRefresh == RefreshStartAny \/ RefreshSent \/ RefreshSendFail \/ RefreshReplied
NextJob == JobStartAny \/ JobSent \/ JobSendFail

\* The bot: the update handlers run one update at a time, and the job
\* runs beside them on the same event loop, each between its awaits.
Next == NextButton \/ NextRefresh \/ NextJob
Spec == Init /\ [][Next]_vars

\* The parts of the bot, each alone.  The button handler touches the
\* tracker and the memory, the scans touch sent; they share no state but
\* the handlers' taking one update at a time.
SpecButton == Init /\ [][NextButton]_vars

\* the scans: /refresh commands and the timer's jobs, interleaving
NextScan == NextRefresh \/ NextJob
SpecScan == InitScan /\ [][NextScan]_vars

\* the timer's scans alone, one after another, with no /refresh
SpecTimer == InitScan /\ [][NextJob]_vars

(* ------------------- button handlers in flight together ---------------- *)
\* The event loop with several button presses being handled at once, as
\* it runs them when updates are processed concurrently: each button_cb
\* runs from one await to the next without yielding, and the handlers
\* interleave in any order at q.answer() and edit_message_text().  The
\* runs in which no two handlers are in flight are those of the bot as
\* main() builds it, which handles one update at a time.
LoopFiles == {NoFile, JsonFile(JArray(StoreOf(MemCap - 1)))}
LoopPayloads == {K1 \o <<":", "in_progress">>, K2 \o <<":", "ganclik">>}
InitLoop == InitFrom(LoopFiles)

\* the store that remember, called by the handler t, appends to:
\* the global _memory_cache as it is when remember runs
\* (the store as the handler found it before its first await)
StoreAtStart(t) == t.seen
StoreRead(t) == cache

\* A press arrives while slot s is free: button_cb runs to q.answer().
LoopPress(s, data) ==
    /\ started
    /\ tasks[s].pc = "idle"
    /\ presses < MaxPress
    /\ tasks' = [tasks EXCEPT ![s] = [pc |-> "answer", data |-> data, seen |-> cache]]
    /\ presses' = presses + 1
    /\ UNCHANGED <<memVars, tracker, sent, hpc, hscan, job, hev, hres, hout, jev,
                   cards, rcards, scans, refreshes, advice, rendered, stored, spoiled>>

\* q.answer() of the handler in slot s returned: it runs to its
\* edit_message_text, or to the exception that ends it.
LoopBody(s, r1, r2, io) ==
    /\ tasks[s].pc = "answer"
    /\ LET t == tasks[s]
           b == button_cb(t.data, tracker, StoreRead(t), file, clock, r1, r2, io)
       IN  /\ r1 = "ok" \/ Has(b.events, "transition") \/ Has(b.events, "assign")
           /\ r2 = "ok" \/ Has(b.events, "update")
           /\ io = "ok" \/ (Has(b.events, "remember") /\ cache.shape = "array")
           /\ tracker' = b.trk
           /\ cache' = b.cache
           /\ file' = b.file
           /\ hist' = IF Has(b.events, "remember") /\ cache.shape = "array"
                      THEN Append(hist, MemRecord(b.key, b.act, clock))
                      ELSE hist
           /\ clock' = IF Has(b.events, "remember") THEN clock + 1 ELSE clock
           /\ tasks' = [tasks EXCEPT ![s] = IF b.raised = "none"
                                             THEN [t EXCEPT !.pc = "edit"]
                                             ELSE NoTask]
           /\ stored' = IF b.msg = "success" THEN stored + 1 ELSE stored
           /\ spoiled' = (spoiled \/ (Has(b.events, "remember") /\ b.raised # "none"))
    /\ UNCHANGED <<loaded, calls, last, sample, sent, hpc, hscan, job, hev, hres, hout,
                   jev, cards, rcards, presses, scans, refreshes, advice, rendered>>

\* edit_message_text of the handler in slot s returned: button_cb returns.
LoopEdit(s) ==
    /\ tasks[s].pc = "edit"
    /\ tasks' = [tasks EXCEPT ![s] = NoTask]
    /\ UNCHANGED <<memVars, botVars, advice, rendered, stored, spoiled>>

LoopPressAny == \E s \in Slots, d \in LoopPayloads : LoopPress(s, d)
\* each tracker call and each file write ends well or fails
LoopBodyAny ==
    \E s \in Slots, r1 \in {"ok", "JIRAError"}, r2 \in {"ok", "JIRAError"},
       io \in {"ok", "trunc_fail"} :
        LoopBody(s, r1, r2, io)
LoopEditAny == \E s \in Slots : LoopEdit(s)
NextLoop == LoopPressAny \/ LoopBodyAny \/ LoopEditAny
SpecLoop == InitLoop /\ [][NextLoop]_vars

(* ------------------------- claims: the memory -------------------------- *)
\* s is the last n elements of h, in the order of h
IsTailOf(s, h) ==
    /\ Len(s) <= Len(h)
    /\ \A i \in 1..Len(s) : s[i] = h[Len(h) - Len(s) + i]

\* C1: after every remember call on a loaded list, the store holds at
\* most 1000 records and is exactly the last min(1000, total) records of
\* the loaded records followed by the appended ones, in call order.
C1_StoreIsLastThousand ==
    (cache.shape = "array" /\ last.op = "remember") =>
        /\ Len(cache.items) <= MemCap
        /\ Len(cache.items) = Min(MemCap, Len(hist))
        /\ IsTailOf(cache.items, hist)

\* C1 witness: a remember call on a full store evicted its oldest record.
C1_Witness ==
    /\ cache.shape = "array"
    /\ last.op = "remember"
    /\ Len(hist) > MemCap
    /\ Len(cache.items) = MemCap
    /\ cache.items[1] # hist[1]
    /\ cache.items[MemCap].ts = clock - 1

\* C6: loading from a missing file, an empty file or a file that is not
\* JSON yields an empty store and raises nothing.
C6_BrokenFileLoadsEmpty ==
    (~loaded.file.exists \/ loaded.file.body \in {"empty", "garbage"}) =>
        /\ loaded.result = Returned(JArray(<<>>))
        /\ (calls = 0 => cache = JArray(<<>>))

\* C6 witness: the process started from a file that is not JSON and made a
\* remember call on the empty store it loaded.
C6_Witness ==
    /\ loaded.file.body = "garbage"
    /\ started
    /\ last.op = "remember"
    /\ Len(hist) = 1

\* C8: examples(n) on a store of k records returns exactly min(n, k)
\* records, each the record at a position of the store, no position
\* twice, and leaves the store as it was.
C8_SampleIsSubset ==
    sample.n >= 0 =>
        LET k == Len(sample.before.items)
        IN  /\ sample.raised = "none"
            /\ Len(sample.out) = Min(sample.n, k)
            /\ Len(sample.pos) = Len(sample.out)
            /\ \A i \in 1..Len(sample.out) :
                  /\ sample.pos[i] \in 1..k
                  /\ sample.out[i] = sample.before.items[sample.pos[i]]
            /\ \A i, j \in 1..Len(sample.pos) :
                  i # j => sample.pos[i] # sample.pos[j]
            /\ sample.after = sample.before

\* C8 witness: more records were asked for than the store holds, and all
\* of them came back.
C8_Witness ==
    /\ sample.n > Len(sample.before.items)
    /\ Len(sample.out) = MaxStore
    /\ sample.out # sample.before.items

\* C15 as claimed: once a remember has been made, the file holds the
\* whole store, same records in the same order, after every remember
\* call, one whose file write failed too.
C15_FileEqualsStore ==
    (last.op = "remember" /\ cache.shape = "array") => file = JsonFile(cache)

\* C15 amended: after a remember call whose file write succeeded the file
\* holds the whole store, same records in the same order; after one whose
\* write failed the store holds the new record and the file does not
\* hold the store.
C15_FileEqualsStoreOnceWritten ==
    (last.op = "remember" /\ cache.shape = "array") =>
        /\ cache.items[Len(cache.items)] =
              MemRecord(last.key, last.action, clock - 1)
        /\ last.raised = "none" => file = JsonFile(cache)
        /\ last.raised # "none" =>
              /\ last.raised = "OSError"
              /\ file # JsonFile(cache)

\* C15 witness: a remember on a full store evicted the oldest record and
\* wrote the file, which holds the thousand records of the store.
C15_Witness ==
    /\ last.op = "remember"
    /\ last.raised = "none"
    /\ Len(hist) = MemCap + 2
    /\ file.body = "json"
    /\ file.value.items = cache.items
    /\ Len(file.value.items) = MemCap
    /\ file.value.items[MemCap].ts = clock - 1

\* C16: every file content that is not a JSON array of records, valid
\* JSON of another shape (an object, a string, a number, null) too, loads
\* as an empty store and raises nothing, so that the store is always a
\* list to which a later remember can append.
C16_NoArrayLoadsEmpty ==
    (loaded.file.exists /\ ~(loaded.file.body = "json"
                             /\ loaded.file.value.shape = "array")) =>
        /\ loaded.result = Returned(JArray(<<>>))
        /\ cache.shape = "array"
        /\ last.op = "remember" => last.raised # "AttributeError"

\* the records the store held when the process started
Initial == IF loaded.result.value.shape = "array"
           THEN Len(loaded.result.value.items) ELSE 0

\* C19: remember having no await, no append is lost however the handlers
\* interleave on the event loop: after N presses whose dispatch succeeded
\* and whose remember returned, the store is the last min(1000, initial +
\* N) records in the order the remember calls ran, and the file holds the
\* store.
C19_NoAppendLost ==
    (cache.shape = "array" /\ ~spoiled) =>
        /\ Len(hist) = Initial + stored
        /\ Len(cache.items) = Min(1000, Initial + stored)
        /\ IsTailOf(cache.items, hist)
        /\ \A i \in 1..(Len(hist) - 1) : hist[i].ts < hist[i + 1].ts
        /\ stored >= 1 => file = JsonFile(cache)

\* C19 witness: two presses were being handled together, each having
\* found the loaded store of 999 records before either remember ran;
\* both records are in the store, the oldest loaded one is evicted, and
\* the file holds the store.
C19_Witness ==
    /\ tasks["a"].pc = "edit"
    /\ tasks["b"].pc = "edit"
    /\ tasks["a"].seen = loaded.result.value
    /\ tasks["b"].seen = loaded.result.value
    /\ Initial = MemCap - 1
    /\ stored = 2
    /\ Len(cache.items) = MemCap
    /\ cache.items[MemCap - 1].key # cache.items[MemCap].key
    /\ cache.items[1] = hist[2]
    /\ file = JsonFile(cache)

(* ----------------------- claims: the advisory model -------------------- *)
\* C13: llm_recommend never lets a failure out: for every ticket, every
\* list of past records passed as examples (records of the memory file
\* that lack a key or an action too) and every failure of the HTTP call or
\* of decoding its response, it returns the fixed fallback string and
\* raises nothing.
C13_AdviceNeverRaises ==
    advice.called =>
        /\ advice.result.raised = "none"
        /\ advice.http # "ok" =>
              advice.result.text = "fallback" /\ advice.result.warned
        /\ advice.http = "ok" => advice.result.text = "reply"

(* ---------------------------- claims: the card ------------------------- *)
\* C14: card(issue) shows, for a ticket with no comments, the placeholder
\* for both the comment text and the author; for a ticket with comments
\* it shows the text of the last comment, in comment order, cut to at
\* most 300 characters, with that comment's author (the author's display
\* name, "?" for an author that has none).
C14_CardShowsLastComment ==
    rendered.called =>
        LET cs == rendered.issue.comment.comments
            c == rendered.card
        IN  IF cs = <<>>
            THEN c.last_text = Dash /\ c.last_auth = Dash
            ELSE LET l == cs[Len(cs)]
                 IN  /\ Len(c.last_text) <= 300
                     /\ Len(c.last_text) = Min(300, Len(l.body))
                     /\ \A i \in 1..Len(c.last_text) : c.last_text[i] = l.body[i]
                     /\ c.last_auth =
                           IF l.author = Anonymous THEN Unknown ELSE l.author

\* C14 witness: a ticket with two comments, the first by nobody known and
\* the last, by Ann, one character over the cut: the card shows the first
\* 300 characters of the last one and Ann.
C14_Witness ==
    /\ rendered.called
    /\ Len(rendered.issue.comment.comments) = 2
    /\ rendered.issue.comment.comments[1] = Comment(Body("x", CardCut), Anonymous)
    /\ rendered.issue.comment.comments[2] = Comment(Body("y", CardCut + 1), <<"Ann">>)
    /\ rendered.card.last_text = Body("y", CardCut)
    /\ rendered.card.last_auth = <<"Ann">>

(* ----------------------- claims: the button handler -------------------- *)
Count(events, e) == Cardinality({i \in 1..Len(events) : events[i] = e})
\* the first place of e in events, 0 when it is not there
Place(events, e) ==
    IF Has(events, e)
    THEN CHOOSE i \in 1..Len(events) :
            events[i] = e /\ \A j \in 1..(i - 1) : events[j] # e
    ELSE 0
TrackerCalls == {"transition", "assign", "update"}

\* button_cb has run its body for a press
Ran == hev.kind = "button" /\ hev.ran
\* the action named by a payload that kb renders
PayloadAct == hev.data[Len(hev.data)]
PayloadKey == <<hev.data[1]>>
\* How the press went, told from the payload and from how the tracker
\* calls ended: the action is in the table and its tracker calls did not
\* fail, but for the date update of ganclik failing by JIRAError.
DispatchOk ==
    /\ hev.data \in GoodPayloads
    /\ hev.r1 = "ok"
    /\ PayloadAct = "ganclik" => hev.r2 \in {"ok", "JIRAError"}

\* C2: remember is called exactly once for a press if and only if the
\* dispatched tracker action completed without error, after the tracker
\* calls and before the success confirmation; a press whose dispatch
\* fails adds no record to the store.
C2_RememberIffDispatched ==
    Ran =>
        LET ev == hres.events
        IN  IF DispatchOk
            THEN /\ Count(ev, "remember") = 1
                 /\ \A i \in 1..Len(ev) :
                       ev[i] \in TrackerCalls => i < Place(ev, "remember")
                 /\ Has(ev, "edit") =>
                       /\ hres.msg = "success"
                       /\ Place(ev, "edit") = Place(ev, "remember") + 1
                       /\ Place(ev, "edit") = Len(ev)
                 /\ hev.cache0.shape = "array" =>
                       /\ Len(hist) = Len(hev.cache0.items) + 1
                       /\ cache.items[Len(cache.items)].key = PayloadKey
                       /\ cache.items[Len(cache.items)].action = <<PayloadAct>>
            ELSE /\ Count(ev, "remember") = 0
                 /\ hres.msg # "success"
                 /\ cache = hev.cache0
                 /\ file = hev.file0
                 /\ Len(hist) = Len(hev.cache0.items)

\* C2 witness: a press was dispatched, remembered and confirmed.
C2_Witness ==
    /\ Ran
    /\ DispatchOk
    /\ hout = "success"
    /\ hres.events = <<"assign", "update", "remember", "edit">>
    /\ Len(cache.items) = 2

\* C3: a payload "key:act" whose act is not in the table gets the
\* unknown-action message, never the tracker-failure message; no tracker
\* call is made and nothing is recorded.
C3_UnknownActionReported ==
    (Ran /\ hev.data \in UnknownPayloads) =>
        /\ hres.raised = "none"
        /\ hres.msg = "unknown"
        /\ \A i \in 1..Len(hres.events) :
              hres.events[i] \notin TrackerCalls \cup {"remember"}
        /\ tracker = hev.trk0
        /\ cache = hev.cache0
        /\ file = hev.file0
        /\ hpc = "idle" => hout = "unknown"

\* C3 witness: the press "ISP-2:ganclik:x" ended with the unknown-action
\* message.
C3_Witness ==
    /\ Ran
    /\ hev.data = K2 \o <<":", "ganclik", ":", "x">>
    /\ hpc = "idle"
    /\ hout = "unknown"

\* the error of the tracker call that failed
FailedWith == IF hev.r1 # "ok" THEN hev.r1 ELSE hev.r2

\* C4: a known action whose tracker call fails, with whatever error, gets
\* the tracker-failure message with the error's text, never the
\* unknown-action message.
C4_KnownFailureIsTrackerFailure ==
    (Ran /\ hev.data \in GoodPayloads /\ ~DispatchOk) =>
        /\ hres.msg = "jira"
        /\ hres.text = FailedWith

\* C5: ganclik whose reassignment succeeds and whose date update fails,
\* however it fails: the ticket stays reassigned, a warning is logged,
\* remember is called once and the success confirmation follows.  (Stated
\* for the failures that are no KeyError, for which C4 speaks, and for a
\* file write that succeeds, for which C7 speaks.)
C5_GanclikDateFailureIsWarning ==
    (/\ Ran
     /\ hev.data \in GoodPayloads
     /\ PayloadAct = "ganclik"
     /\ hev.r1 = "ok"
     /\ hev.r2 \notin {"ok", "KeyError"}
     /\ hev.io = "ok"
     /\ hev.cache0.shape = "array") =>
        /\ tracker[PayloadKey].assignee = "ganclik"
        /\ Has(hres.events, "log.warning")
        /\ Count(hres.events, "remember") = 1
        /\ hres.msg = "success"

\* C7: a failed write of the memory file after a successful tracker
\* action does not leave remember: button_cb goes on to the success
\* confirmation.
C7_SaveFailureDoesNotAbort ==
    (Ran /\ DispatchOk /\ hev.io # "ok") =>
        /\ hres.raised = "none"
        /\ hres.msg = "success"

\* C11: every press, whatever its payload (one without ":" too), ends with
\* exactly one message to the operator: the success confirmation, the
\* unknown-action message or the tracker-failure message; button_cb never
\* ends without editing the message.  (Stated for a store that is a list
\* and a file write that succeeds, for which C16 and C7 speak.)
C11_EveryPressIsAnswered ==
    (Ran /\ hev.io = "ok" /\ hev.cache0.shape = "array") =>
        /\ hres.raised = "none"
        /\ Count(hres.events, "edit") = 1
        /\ hres.msg \in {"success", "unknown", "jira"}
        /\ hpc = "idle" => hout = hres.msg

\* the tracker calls among events, in order
TrackerPart(events) == SelectSeq(events, LAMBDA e : e \in TrackerCalls)

\* C12: there is no retry.  For one press each tracker operation of the
\* chosen action is invoked at most once (one transition, or one
\* reassignment, or for ganclik one reassignment and at most one date
\* update); once a failure is reported the handling ends: the failed call
\* is the last tracker call and nothing is written to the memory.
C12_NoRetry ==
    Ran =>
        LET ev == hres.events
            tp == TrackerPart(ev)
        IN  /\ IF hev.data \notin GoodPayloads THEN tp = <<>>
               ELSE IF PayloadAct \in {"in_progress", "on_hold"}
               THEN tp = <<"transition">>
               ELSE IF PayloadAct = "cdc_cc" THEN tp = <<"assign">>
               ELSE tp \in {<<"assign">>, <<"assign", "update">>}
            /\ hres.msg \in {"unknown", "jira"} =>
                  /\ Count(ev, "log.error") = 1
                  /\ Count(ev, "edit") = 1
                  /\ ev = tp \o <<"log.error", "edit">>
                  /\ hres.msg = "jira" => Len(tp) >= 1
                  /\ cache = hev.cache0
                  /\ file = hev.file0
                  /\ Len(hist) = Len(hev.cache0.items)
            /\ tracker = hres.trk

\* C12 witness: ganclik whose date update failed with an error that is
\* reported: one reassignment, one update, the report, and the handling
\* is over.
C12_Witness ==
    /\ Ran
    /\ hev.data = K1 \o <<":", "ganclik">>
    /\ hev.r2 = "ConnectionError"
    /\ hres.events = <<"assign", "update", "log.error", "edit">>
    /\ hpc = "idle"
    /\ hout = "jira"
    /\ tracker[K1].assignee = "ganclik"

\* C17: for ganclik the reassignment comes strictly before the date
\* update; if the reassignment fails, the date update is never attempted,
\* the failure is shown to the operator as a tracker failure, and no
\* record is added to the memory.
C17_GanclikAssignFirst ==
    (Ran /\ hev.data \in GoodPayloads /\ PayloadAct = "ganclik") =>
        /\ Place(hres.events, "assign") = 1
        /\ Has(hres.events, "update") => Place(hres.events, "update") = 2
        /\ hev.r1 # "ok" =>
              /\ ~Has(hres.events, "update")
              /\ tracker = hev.trk0
              /\ hres.msg = "jira"
              /\ hres.text = hev.r1
              /\ ~Has(hres.events, "remember")
              /\ cache = hev.cache0
              /\ file = hev.file0

Range(q) == {q[i] : i \in 1..Len(q)}

\* C9: over timer scans running one after another with no /refresh, a
\* card is sent only for a key not yet in sent and every key sent is
\* added to it: each key is sent at most once and sent only grows.
C9_TimerSendsOnce ==
    /\ [](\A k \in TicketKeys : cards[k] <= 1 /\ (cards[k] = 1 <=> k \in sent))
    /\ [][/\ sent \subseteq sent'
          /\ \A k \in TicketKeys :
                cards'[k] # cards[k] => (k \notin sent /\ k \in sent')]_vars

\* C9 witness: a later scan found ISP-1 in its search and in sent, passed
\* it over and is sending ISP-2; ISP-1 was sent once.
C9_Witness ==
    /\ scans >= 2
    /\ job.pc = "send"
    /\ job.cur = K2
    /\ jev.issues = <<K1, K2>>
    /\ jev.sent0 = {K1}
    /\ sent = {K1}
    /\ cards[K1] = 1
    /\ cards[K2] = 0

\* C10 as claimed: when a /refresh has scanned without error and goes on
\* to its reply, every ticket the query returned was sent exactly once by
\* that refresh and sent is exactly the set of the keys returned.
C10_RefreshSendsAll ==
    [][(hpc # "reply" /\ hpc' = "reply") =>
          /\ \A k \in Range(hev'.issues) : rcards'[k] = 1
          /\ sent' = Range(hev'.issues)]_vars

\* C10 amended: when a /refresh has scanned without error and goes on to
\* its reply, every ticket the query returned has been sent since sent
\* was emptied and is in sent; if no timer scan ran while the refresh
\* scanned, each was sent exactly once by the refresh and sent is exactly
\* the set of the keys returned.
C10_RefreshSendsAllOrJobDid ==
    [][(hpc # "reply" /\ hpc' = "reply") =>
          /\ \A k \in Range(hev'.issues) : cards'[k] >= 1 /\ k \in sent'
          /\ hev'.alone =>
                /\ \A k \in Range(hev'.issues) : rcards'[k] = 1
                /\ sent' = Range(hev'.issues)]_vars

\* C10 witness: a timer scan sent ISP-1; then a /refresh, with no timer
\* scan beside it, sent ISP-2 and ISP-1 again and goes on to its reply.
C10_Witness ==
    /\ hev.kind = "refresh"
    /\ hpc = "reply"
    /\ hev.alone
    /\ scans >= 1
    /\ hev.sent0 = {K1}
    /\ hev.issues = <<K2, K1>>
    /\ rcards[K1] = 1
    /\ rcards[K2] = 1
    /\ sent = {K1, K2}
\* C18: when two scans overlap on the event loop, interleaving at the
\* send_message await between the "key in sent" test and sent.add, no
\* ticket is sent more than once between two consecutive clears of sent.
C18_NoDuplicateCards ==
    \A k \in TicketKeys : cards[k] <= 1
====
